---- MODULE Spec2Model ----
(***************************************************************************)
(* Model of the predictor subsystem of the AI service.                     *)
(*                                                                         *)
(*   Spec         models/outbreak_predictor.py : OutbreakPredictor, its    *)
(*                persisted artifact and the coroutines that use it on one *)
(*                asyncio event loop.                                      *)
(*   SpecFeatures models/outbreak_predictor.py : _extract_features and the *)
(*                helpers it calls, applied to one request.                *)
(*                Then the rest of predict() on the extracted features.    *)
(*   SpecExplain  models/outbreak_predictor.py :                           *)
(*                _identify_contributing_factors and                       *)
(*                _generate_recommendations, applied to a feature record.  *)
(*   SpecSynthetic  the synthetic data generators of both files and        *)
(*                numpy's global random generator they draw from.          *)
(*   SpecLabels   models/outbreak_predictor.py : the risk score and label  *)
(*                of _generate_synthetic_data, applied to two rows.        *)
(*   SpecProcessor  main.py : DataProcessor.process_prediction_request,    *)
(*                applied to one prediction request.                       *)
(*   SpecService  main.py : the service, its two predictors                *)
(*                (OutbreakPredictor, HealthRiskAssessor), their files and *)
(*                the request handlers, the training endpoints included.   *)
(***************************************************************************)
EXTENDS Integers, Sequences, FiniteSets, TLC

\* Number of coroutine calls (tasks) made on the predictor in one behaviour.
MaxTasks == 2

VARIABLES
    predictor,   \* fields of the OutbreakPredictor object (self.*)
    disk,        \* the file at self.model_path
    clock,       \* datetime.now()
    tasks,       \* coroutine calls on the predictor: kind and position
    running,     \* the task the event loop is executing, 0 when it is idle
    snap,        \* self.* as it was when the running train()/load_model() was entered
    saved,       \* self.* as it was at the last save_model() that succeeded
    ever_ready,  \* whether a load or a training run of this object has succeeded
    ev,          \* outcome of the call that has just returned or raised
    data,        \* the request dict given to _extract_features
    month,       \* datetime.now().month
    features,    \* the dict _extract_features returned
    phase,       \* how far the call on the request or on the feature record has got
    columns,     \* self.feature_columns of the trained predictor, as a list
    features_df, \* the one-row frame predict() hands to the model
    risk_level,  \* the risk level the model's class maps to
    contributing_factors, \* what _identify_contributing_factors returned
    recommendations,      \* what _generate_recommendations returned
    request,     \* the PredictionRequest given to process_prediction_request
    processed,   \* the values of the array process_prediction_request returned
    app,         \* the service process: "down", "serving" or "exited"
    svc,         \* main.py's outbreak_predictor and health_risk_assessor
    files,       \* models/outbreak_predictor.pkl and models/health_risk_assessor.pkl
    stamp,       \* pd.Timestamp.now()
    handled,     \* number of requests handled and of changes made to the files from outside
    resp,        \* the response to the request just handled
    rng,         \* the state of numpy's global random generator
    calls,       \* what each call that drew from the generator returned, in order
    row,         \* a row of the synthetic data
    other,       \* the same row with the value of one feature replaced
    feature,     \* the feature in which `row` and `other` differ
    labels       \* the labels of `row` and of `other`

lvars == <<predictor, disk, clock, tasks, running, snap, saved, ever_ready, ev>>

fvars ==
    <<data, month, features, phase, columns, features_df, risk_level,
      contributing_factors, recommendations, request, processed>>

svars == <<app, svc, files, stamp, handled, resp>>

gvars == <<rng, calls, row, other, feature, labels>>

vars == <<lvars, fvars, svars, gvars>>

Tasks == 1..MaxTasks

-----------------------------------------------------------------------------
(* Values *)

\* self.feature_columns: None, the column list _prepare_features returns for
\* the synthetic data ("train_columns"), or the list of an artifact written by
\* an earlier release ("old_columns", which names a column the present list
\* lacks)
NoColumns == "None"

\* self.model: None, or the Pipeline built by training run `run`, whose
\* ColumnTransformer selects the columns `cols` by name
NoModel == [obj |-> "None", run |-> 0, fitted |-> FALSE, cols |-> NoColumns]
Pipeline(run, fitted, cols) == [obj |-> "Pipeline", run |-> run, fitted |-> fitted, cols |-> cols]

\* datetime values: 0 stands for None
NoTime == 0

\* OutbreakPredictor.__init__
InitPredictor ==
    [ model           |-> NoModel,
      scaler          |-> "None",
      label_encoder   |-> "None",
      feature_columns |-> NoColumns,
      version         |-> "1.0.0",
      last_trained    |-> NoTime ]

\* keys that load_model reads with model_data[...] (KeyError when absent), in
\* the order it reads them
RequiredKeys == <<"model", "scaler", "label_encoder", "feature_columns">>

\* keys that save_model writes
SavedKeys ==
    { "model", "scaler", "label_encoder", "feature_columns", "version",
      "last_trained", "risk_thresholds", "feature_weights" }

\* the dict save_model dumps
SavePayload(p, now) ==
    [ keys            |-> SavedKeys,
      model           |-> p.model,
      scaler          |-> p.scaler,
      label_encoder   |-> p.label_encoder,
      feature_columns |-> p.feature_columns,
      version         |-> p.version,
      last_trained    |-> now ]

\* an artifact written by an earlier process (training run 0, older version)
OldPayload ==
    [ keys            |-> SavedKeys,
      model           |-> Pipeline(0, TRUE, "old_columns"),
      scaler          |-> "StandardScaler",
      label_encoder   |-> "LabelEncoder",
      feature_columns |-> "old_columns",
      version         |-> "0.9.0",
      last_trained    |-> 1 ]

NoFile == [file |-> "missing", data |-> [OldPayload EXCEPT !.keys = {}]]
CorruptFile == [file |-> "corrupt", data |-> [OldPayload EXCEPT !.keys = {}]]
DictFile(payload) == [file |-> "dict", data |-> payload]

\* the states the file at model_path can be in when the process starts
InitialArtifacts ==
    { NoFile,
      CorruptFile,
      DictFile(OldPayload),
      \* partial payloads: a required key is absent
      DictFile([OldPayload EXCEPT !.keys = SavedKeys \ {"scaler"}]),
      DictFile([OldPayload EXCEPT !.keys = SavedKeys \ {"feature_columns"}]),
      \* the optional keys are absent
      DictFile([OldPayload EXCEPT !.keys = SavedKeys \ {"version", "last_trained"}]) }


-----------------------------------------------------------------------------
(* Pure parts of the operations *)

\* position in RequiredKeys of the first key the payload lacks, or
\* Len(RequiredKeys) + 1 when it has them all
FirstMissing(d) ==
    IF \E k \in 1..Len(RequiredKeys) : RequiredKeys[k] \notin d.keys
    THEN CHOOSE k \in 1..Len(RequiredKeys) :
            /\ RequiredKeys[k] \notin d.keys
            /\ \A j \in 1..(k - 1) : RequiredKeys[j] \in d.keys
    ELSE Len(RequiredKeys) + 1

\* the attributes load_model assigns from the payload
LoadedFields ==
    {"model", "scaler", "label_encoder", "feature_columns", "version", "last_trained"}

\* joblib.load, then the assignments to the attributes `fields` in program
\* order; an assignment is made only if no earlier statement raised.
LoadAssign(p, f, fields) ==
    IF f.file # "dict"
    THEN [ p   |-> p,
           out |-> "raised",
           err |-> IF f.file = "missing" THEN "FileNotFoundError" ELSE "UnpicklingError" ]
    ELSE LET d == f.data
             m == FirstMissing(d)
             all == m = Len(RequiredKeys) + 1
             set(k) == k \in fields
         IN  [ p   |-> [ model           |-> IF 1 < m /\ set("model")
                                             THEN d.model ELSE p.model,
                         scaler          |-> IF 2 < m /\ set("scaler")
                                             THEN d.scaler ELSE p.scaler,
                         label_encoder   |-> IF 3 < m /\ set("label_encoder")
                                             THEN d.label_encoder ELSE p.label_encoder,
                         feature_columns |-> IF 4 < m /\ set("feature_columns")
                                             THEN d.feature_columns ELSE p.feature_columns,
                         version         |-> IF ~all \/ ~set("version") THEN p.version
                                             ELSE IF "version" \in d.keys THEN d.version
                                             ELSE "1.0.0",
                         last_trained    |-> IF ~all \/ ~set("last_trained") THEN p.last_trained
                                             ELSE IF "last_trained" \in d.keys THEN d.last_trained
                                             ELSE NoTime ],
               out |-> IF all THEN "ok" ELSE "raised",
               err |-> IF all THEN "" ELSE "KeyError" ]

\* a load_model that forgets to restore self.feature_columns
load_model_without_columns(p, f) == LoadAssign(p, f, LoadedFields \ {"feature_columns"})

\* load_model, lines 77-84
load_model(p, f) == LoadAssign(p, f, LoadedFields)

\* requests given to predict(); the classifier's answer is a function of the
\* fitted model, the column list the row is aligned to, and the request
Inputs == {"request_a", "request_b"}

NotReady == "ValueError: Model not loaded or trained"

\* predict, up to the classifier calls: the readiness check, the loop over
\* self.feature_columns, then predict_proba and predict on self.model (which
\* raise on an unfitted pipeline and on a row without the pipeline's columns)
predict(p, x) ==
    IF p.model.obj = "None"
    THEN [ out |-> "raised", err |-> NotReady,
           proba_model |-> NoModel, class_model |-> NoModel, columns |-> NoColumns,
           x |-> x, model_version |-> "" ]
    ELSE IF p.feature_columns = NoColumns
    THEN [ out |-> "raised", err |-> "TypeError: 'NoneType' object is not iterable",
           proba_model |-> NoModel, class_model |-> NoModel, columns |-> NoColumns,
           x |-> x, model_version |-> "" ]
    ELSE IF ~p.model.fitted
    THEN [ out |-> "raised", err |-> "NotFittedError",
           proba_model |-> p.model, class_model |-> NoModel, columns |-> p.feature_columns,
           x |-> x, model_version |-> "" ]
    ELSE IF p.model.cols # p.feature_columns
    THEN [ out |-> "raised", err |-> "ValueError: columns are missing",
           proba_model |-> p.model, class_model |-> NoModel, columns |-> p.feature_columns,
           x |-> x, model_version |-> "" ]
    ELSE [ out |-> "ok", err |-> "",
           proba_model |-> p.model, class_model |-> p.model, columns |-> p.feature_columns,
           x |-> x, model_version |-> p.version ]

\* a save_model that writes the file with asynchronous I/O
SuspendsAtSave(callee) == callee = "save_model"

\* whether awaiting the named coroutine hands control back to the event loop:
\* load_model, save_model, train and _load_real_data contain no await that
\* suspends, so `await` on them runs them to completion
Suspends(callee) == FALSE

After(i, callee) == IF Suspends(callee) THEN 0 ELSE i

-----------------------------------------------------------------------------
(* Coroutine calls on the predictor, run by one event loop *)

\* the coroutines that assign to self.*
Mutators == {"load_or_train", "train", "load_model"}

Kinds == Mutators \cup {"save_model", "predict"}

IdleTask == [kind |-> "none", pc |-> "idle", data_source |-> "", overlap |-> FALSE]

NoEv ==
    [ call |-> "none", out |-> "none", err |-> "", load |-> "none", train |-> "none",
      data_source |-> "", overlap |-> FALSE, task |-> 0,
      res |-> predict(InitPredictor, "request_a") ]

\* the event of task i returning (out = "ok") or raising (out = "raised")
Returned(i, out, err, load, train) ==
    [ NoEv EXCEPT !.call = tasks[i].kind, !.out = out, !.err = err, !.load = load,
                  !.train = train, !.data_source = tasks[i].data_source, !.task = i ]

Finish(i) == tasks' = [tasks EXCEPT ![i].pc = "done"] /\ running' = 0

Goto(i, pc) == tasks' = [tasks EXCEPT ![i].pc = pc]

\* a caller creates the coroutine; it starts when the event loop next picks it.
\* A predict() created while a coroutine that assigns to self.* is under way
\* overlaps it.
Request(i, kind, ds) ==
    /\ tasks[i].pc = "idle"
    /\ \A j \in 1..(i - 1) : tasks[j].pc # "idle"
    /\ tasks' = [tasks EXCEPT ![i] =
                    [ kind        |-> kind,
                      pc          |-> "pending",
                      data_source |-> ds,
                      overlap     |-> /\ kind = "predict"
                                      /\ running # 0
                                      /\ tasks[running].kind \in Mutators ]]
    /\ ev' = NoEv
    /\ UNCHANGED <<predictor, disk, clock, running, snap, saved, ever_ready>>
    /\ UNCHANGED <<fvars, svars, gvars>>

\* the event loop, idle, runs a task that is ready: one not yet started, or one
\* suspended at an await
Schedule(i) ==
    /\ running = 0
    /\ tasks[i].pc \notin {"idle", "done"}
    /\ running' = i
    /\ tasks' = [j \in Tasks |->
                    IF j = i
                    THEN [tasks[i] EXCEPT !.pc = IF @ = "pending" THEN tasks[i].kind ELSE @]
                    ELSE IF /\ tasks[j].kind = "predict"
                            /\ tasks[j].pc = "pending"
                            /\ tasks[i].kind \in Mutators
                         THEN [tasks[j] EXCEPT !.overlap = TRUE]
                         ELSE tasks[j]]
    /\ ev' = NoEv
    /\ UNCHANGED <<predictor, disk, clock, snap, saved, ever_ready>>
    /\ UNCHANGED <<fvars, svars, gvars>>

\* load_or_train, lines 64-69: the existence test and the call it selects
LoadOrTrain(i) ==
    /\ running = i
    /\ tasks[i].pc = "load_or_train"
    /\ IF disk.file # "missing"
       THEN Goto(i, "load_model") /\ running' = After(i, "load_model")
       ELSE Goto(i, "train") /\ running' = After(i, "train")
    /\ ev' = NoEv
    /\ UNCHANGED <<predictor, disk, clock, snap, saved, ever_ready>>
    /\ UNCHANGED <<fvars, svars, gvars>>

\* load_model, called directly or from load_or_train; either way an exception
\* it raises is logged and re-raised to the caller (lines 88-90, 71-73)
LoadModel(i) ==
    /\ running = i
    /\ tasks[i].pc = "load_model"
    /\ LET r == load_model(predictor, disk)
       IN  /\ predictor' = r.p
           /\ ev' = Returned(i, r.out, r.err, r.out, "none")
           /\ ever_ready' = (ever_ready \/ r.out = "ok")
    /\ snap' = predictor
    /\ Finish(i)
    /\ UNCHANGED <<disk, clock, saved>>
    /\ UNCHANGED <<fvars, svars, gvars>>

\* an exception inside train(): logged and re-raised (lines 179-181), and
\* re-raised again by load_or_train when it made the call
TrainRaises(i, err) ==
    /\ ev' = Returned(i, "raised", err, "none", "raised")
    /\ Finish(i)

\* train, lines 116-126: the data is generated and prepared, then
\* self.feature_columns is assigned
TrainPrepare(i) ==
    /\ running = i
    /\ tasks[i].pc = "train"
    /\ snap' = predictor
    /\ \/ /\ TrainRaises(i, "data preparation")
          /\ UNCHANGED predictor
       \/ /\ predictor' = [predictor EXCEPT !.feature_columns = "train_columns"]
          /\ Goto(i, "split")
          /\ ev' = NoEv
          /\ UNCHANGED running
    /\ UNCHANGED <<disk, clock, saved, ever_ready>>
    /\ UNCHANGED <<fvars, svars, gvars>>

\* train, lines 129-142: the stratified split and the preprocessor
TrainSplit(i) ==
    /\ running = i
    /\ tasks[i].pc = "split"
    /\ \/ TrainRaises(i, "train_test_split")
       \/ Goto(i, "build") /\ ev' = NoEv /\ UNCHANGED running
    /\ UNCHANGED <<predictor, disk, clock, snap, saved, ever_ready>>
    /\ UNCHANGED <<fvars, svars, gvars>>

\* train, lines 145-156: RandomForestClassifier(**model_params) is built, then
\* self.model is assigned the new, unfitted pipeline
TrainBuild(i) ==
    /\ running = i
    /\ tasks[i].pc = "build"
    /\ \/ /\ TrainRaises(i, "RandomForestClassifier(**parameters)")
          /\ UNCHANGED predictor
       \/ /\ predictor' = [predictor EXCEPT !.model = Pipeline(i, FALSE, "train_columns")]
          /\ Goto(i, "fit")
          /\ ev' = NoEv
          /\ UNCHANGED running
    /\ UNCHANGED <<disk, clock, snap, saved, ever_ready>>
    /\ UNCHANGED <<fvars, svars, gvars>>

\* train, lines 159-167: self.model.fit and the two scores; next comes
\* `await self.save_model()`
TrainFit(i) ==
    /\ running = i
    /\ tasks[i].pc = "fit"
    /\ \/ /\ TrainRaises(i, "fit")
          /\ UNCHANGED predictor
       \/ /\ predictor' = [predictor EXCEPT !.model = [@ EXCEPT !.fitted = TRUE]]
          /\ Goto(i, "save")
          /\ running' = After(i, "save_model")
          /\ ev' = NoEv
    /\ UNCHANGED <<disk, clock, snap, saved, ever_ready>>
    /\ UNCHANGED <<fvars, svars, gvars>>

\* save_model, lines 94-111: the payload is built (datetime.now() is read) and
\* dumped; a dump that raises leaves the old file or a truncated one
SaveModel(i, onOk, onRaise) ==
    /\ clock' = clock + 1
    /\ \/ /\ disk' = DictFile(SavePayload(predictor, clock))
          /\ saved' = [valid |-> TRUE, p |-> predictor]
          /\ onOk
       \/ /\ disk' \in {disk, CorruptFile}
          /\ saved' = [saved EXCEPT !.valid = @ /\ disk' = disk]
          /\ onRaise

\* train, line 170
TrainSave(i) ==
    /\ running = i
    /\ tasks[i].pc = "save"
    /\ SaveModel(i,
                 Goto(i, "stamp") /\ ev' = NoEv /\ UNCHANGED running,
                 TrainRaises(i, "save_model"))
    /\ UNCHANGED <<predictor, snap, ever_ready>>
    /\ UNCHANGED <<fvars, svars, gvars>>

\* train, lines 171-177: self.last_trained and the return
TrainStamp(i) ==
    /\ running = i
    /\ tasks[i].pc = "stamp"
    /\ predictor' = [predictor EXCEPT !.last_trained = clock]
    /\ clock' = clock + 1
    /\ ever_ready' = TRUE
    /\ ev' = Returned(i, "ok", "", "none", "ok")
    /\ Finish(i)
    /\ UNCHANGED <<disk, snap, saved>>
    /\ UNCHANGED <<fvars, svars, gvars>>

\* save_model called on its own
SaveModelCall(i) ==
    /\ running = i
    /\ tasks[i].pc = "save_model"
    /\ SaveModel(i,
                 ev' = Returned(i, "ok", "", "none", "none"),
                 ev' = Returned(i, "raised", "save_model", "none", "none"))
    /\ Finish(i)
    /\ UNCHANGED <<predictor, snap, ever_ready>>
    /\ UNCHANGED <<fvars, svars, gvars>>

\* a predict that sets self.model to None when inference has failed
predict_dropping_failed_model(i) ==
    /\ running = i
    /\ tasks[i].pc = "predict"
    /\ \E x \in Inputs :
          LET r == predict(predictor, x)
          IN  /\ ev' = [Returned(i, r.out, r.err, "none", "none") EXCEPT
                           !.res = r, !.overlap = tasks[i].overlap]
              /\ predictor' = IF r.out = "raised" /\ r.err # NotReady
                              THEN [predictor EXCEPT !.model = NoModel]
                              ELSE predictor
    /\ Finish(i)
    /\ UNCHANGED <<disk, clock, snap, saved, ever_ready>>
    /\ UNCHANGED <<fvars, svars, gvars>>

\* predict, lines 183-235
Predict(i) ==
    /\ running = i
    /\ tasks[i].pc = "predict"
    /\ \E x \in Inputs :
          LET r == predict(predictor, x)
          IN  ev' = [Returned(i, r.out, r.err, "none", "none") EXCEPT
                        !.res = r, !.overlap = tasks[i].overlap]
    /\ Finish(i)
    /\ UNCHANGED <<predictor, disk, clock, snap, saved, ever_ready>>
    /\ UNCHANGED <<fvars, svars, gvars>>

\* a fresh OutbreakPredictor is constructed on the same model_path (the
\* process restarts); the file stays
Construct ==
    /\ running = 0
    /\ \A i \in Tasks : tasks[i].pc \in {"idle", "done"}
    /\ predictor # InitPredictor
    /\ predictor' = InitPredictor
    /\ ever_ready' = FALSE
    /\ ev' = NoEv
    /\ UNCHANGED <<disk, clock, tasks, running, snap, saved>>
    /\ UNCHANGED <<fvars, svars, gvars>>

InitLifecycle(artifacts) ==
    /\ predictor = InitPredictor
    /\ disk \in artifacts
    /\ clock = 2
    /\ tasks = [i \in Tasks |-> IdleTask]
    /\ running = 0
    /\ snap = InitPredictor
    /\ saved = [valid |-> FALSE, p |-> InitPredictor]
    /\ ever_ready = FALSE
    /\ ev = NoEv

Next ==
    \/ \E i \in Tasks :
          \/ \E kind \in Kinds \ {"train", "load_or_train"} : Request(i, kind, "")
          \/ Request(i, "load_or_train", "synthetic")
          \/ \E ds \in {"synthetic", "database"} : Request(i, "train", ds)
          \/ Schedule(i)
          \/ LoadOrTrain(i)
          \/ LoadModel(i)
          \/ TrainPrepare(i)
          \/ TrainSplit(i)
          \/ TrainBuild(i)
          \/ TrainFit(i)
          \/ TrainSave(i)
          \/ TrainStamp(i)
          \/ SaveModelCall(i)
          \/ Predict(i)
    \/ Construct

-----------------------------------------------------------------------------
(* Feature extraction *)

\* numbers are exact rationals n/d, d > 0, in lowest terms
RECURSIVE GCD(_, _)
GCD(a, b) == IF b = 0 THEN a ELSE GCD(b, a % b)

Abs(k) == IF k < 0 THEN -k ELSE k

Rat(n, d) ==
    LET g == GCD(Abs(n), d)
    IN  IF n = 0 THEN [n |-> 0, d |-> 1] ELSE [n |-> n \div g, d |-> d \div g]

Num(k) == Rat(k, 1)

RAdd(a, b) == Rat(a.n * b.d + b.n * a.d, a.d * b.d)

RSub(a, b) == Rat(a.n * b.d - b.n * a.d, a.d * b.d)

RDiv(a, k) == Rat(a.n, a.d * k)

RLess(a, b) == a.n * b.d < b.n * a.d

RECURSIVE RSum(_)
RSum(xs) == IF xs = <<>> THEN Num(0) ELSE RAdd(Head(xs), RSum(Tail(xs)))

\* np.mean of a non-empty list
Mean(xs) == RDiv(RSum(xs), Len(xs))

RECURSIVE Select(_, _)
\* [s[key] for s in dicts if key in s]
Select(dicts, key) ==
    IF dicts = <<>> THEN <<>>
    ELSE IF key \in Head(dicts).keys
         THEN <<Num(Head(dicts)[key])>> \o Select(Tail(dicts), key)
         ELSE Select(Tail(dicts), key)

\* longest lists of readings and of reports in a request
MaxReadings == 2
MaxReports == 2

\* sensor readings: a dict holds the keys in `keys`
Readings ==
    { [keys |-> {"ph", "turbidity", "temperature", "tds"},
       ph |-> 7, turbidity |-> 5, temperature |-> 25, tds |-> 150],
      [keys |-> {"ph", "turbidity", "temperature", "tds"},
       ph |-> 5, turbidity |-> 60, temperature |-> 35, tds |-> 800],
      [keys |-> {"ph"}, ph |-> 7, turbidity |-> 0, temperature |-> 0, tds |-> 0] }

\* health reports; the second carries a severity above the documented 1..10
Reports ==
    { [keys |-> {"symptoms", "severity"},
       symptoms |-> <<"fever", "cough", "nausea", "diarrhea">>, severity |-> 9],
      [keys |-> {"symptoms", "severity"}, symptoms |-> <<>>, severity |-> 15],
      [keys |-> {}, symptoms |-> <<>>, severity |-> 0] }

\* locations: latitude and longitude, each possibly absent
Locations ==
    { [keys |-> {"latitude", "longitude"}, latitude |-> 12, longitude |-> 77],
      [keys |-> {"latitude", "longitude"}, latitude |-> 45, longitude |-> 10],
      [keys |-> {"latitude", "longitude"}, latitude |-> 75, longitude |-> 10],
      [keys |-> {"latitude", "longitude"}, latitude |-> 100, longitude |-> 10],
      [keys |-> {"longitude"}, latitude |-> 0, longitude |-> 10] }

SeqsUpTo(S, n) == UNION {[1..k -> S] : k \in 0..n}

\* a key of the request: absent from the dict, or present with a value
Absent(v) == [given |-> FALSE, value |-> v]
Given(v) == [given |-> TRUE, value |-> v]

Requests ==
    [ sensor_data    : {Absent(<<>>)} \cup {Given(l) : l \in SeqsUpTo(Readings, MaxReadings)},
      health_reports : {Absent(<<>>)} \cup {Given(l) : l \in SeqsUpTo(Reports, MaxReports)},
      location       : {Absent(CHOOSE l \in Locations : TRUE)} \cup {Given(l) : l \in Locations} ]

\* `'k' in data and data['k']` for a list
Truthy(field) == field.given /\ field.value # <<>>

\* values np.random.lognormal can return in _estimate_population_density
LogNormalDraws == {Num(400), Num(3000)}

\* _estimate_population_density, given the value the random draw returns
_estimate_population_density(lat, lon, draw) ==
    IF -90 <= lat /\ lat <= 90 /\ -180 <= lon /\ lon <= 180 THEN draw ELSE Num(500)

_classify_location_type(lat, lon) ==
    IF Abs(lat) < 30 THEN "urban"
    ELSE IF Abs(lat) < 60 THEN "suburban"
    ELSE "rural"

\* seasonal_risk, in tenths
_calculate_seasonal_factor(m) ==
    Rat(<<8, 9, 7, 5, 4, 3, 2, 3, 4, 6, 7, 8>>[m], 10)

_get_season(m) ==
    IF m \in {12, 1, 2} THEN "winter"
    ELSE IF m \in {3, 4, 5} THEN "spring"
    ELSE IF m \in {6, 7, 8} THEN "summer"
    ELSE "fall"

\* the keys _extract_features sets only inside `if 'sensor_data' in data ...`
SensorKeys ==
    {"water_quality_score", "ph_level", "turbidity", "tds_level", "temperature_anomaly"}

\* the keys _extract_features sets on every path
AlwaysKeys ==
    { "symptom_density", "severity_score", "population_density", "location_type",
      "seasonal_factor", "time_of_year", "recent_outbreaks", "weather_conditions" }

\* dict.get(key, default) on a dict with a `keys` field
Get(dict, key, default) == IF key \in dict.keys THEN dict[key] ELSE default

\* len(health_reports) in the place of the number of symptoms
count_reports(rs) == Len(rs)

RECURSIVE TotalSymptoms(_)
\* sum(len(r.get('symptoms', [])) for r in health_reports)
TotalSymptoms(rs) ==
    IF rs = <<>> THEN 0
    ELSE Len(Get(Head(rs), "symptoms", <<>>)) + TotalSymptoms(Tail(rs))

\* [r.get('severity', 1) for r in health_reports]
Severities(rs) == [k \in 1..Len(rs) |-> Num(Get(rs[k], "severity", 1))]

\* _extract_features(data) at calendar month m, with `draw` the value of the
\* random draw of _estimate_population_density
_extract_features(d, m, draw) ==
    LET sensors == d.sensor_data.value
        reports == d.health_reports.value
        loc     == d.location.value
        hasLoc  == d.location.given /\ loc.keys # {}
        ph   == Select(sensors, "ph")
        turb == Select(sensors, "turbidity")
        temp == Select(sensors, "temperature")
        tds  == Select(sensors, "tds")
        lat  == Get(loc, "latitude", 0)
        lon  == Get(loc, "longitude", 0)
        value(k) ==
            CASE k = "water_quality_score" ->
                    Mean(<< IF ph # <<>> THEN Mean(ph) ELSE Num(7),
                            IF turb # <<>> THEN RDiv(RSub(Num(100), Mean(turb)), 10) ELSE Num(7),
                            IF temp # <<>> THEN RDiv(Mean(temp), 10) ELSE Num(7),
                            IF tds # <<>> THEN RDiv(RSub(Num(1000), Mean(tds)), 100) ELSE Num(7) >>)
              [] k = "ph_level" -> IF ph # <<>> THEN Mean(ph) ELSE Num(7)
              [] k = "turbidity" -> IF turb # <<>> THEN Mean(turb) ELSE Num(10)
              [] k = "tds_level" -> IF tds # <<>> THEN Mean(tds) ELSE Num(200)
              [] k = "temperature_anomaly" ->
                    IF temp # <<>> THEN RSub(Mean(temp), Num(25)) ELSE Num(0)
              [] k = "symptom_density" ->
                    IF Truthy(d.health_reports)
                    THEN Rat(TotalSymptoms(reports), Len(reports)) ELSE Num(0)
              [] k = "severity_score" ->
                    IF Truthy(d.health_reports)
                    THEN RDiv(Mean(Severities(reports)), 10) ELSE Num(0)
              [] k = "population_density" ->
                    IF hasLoc THEN _estimate_population_density(lat, lon, draw) ELSE Num(500)
              [] k = "location_type" ->
                    IF hasLoc THEN _classify_location_type(lat, lon) ELSE "urban"
              [] k = "seasonal_factor" -> _calculate_seasonal_factor(m)
              [] k = "time_of_year" -> _get_season(m)
              [] k = "recent_outbreaks" -> Num(0)
              [] k = "weather_conditions" -> "sunny"
    IN  [k \in (IF Truthy(d.sensor_data) THEN SensorKeys ELSE {}) \cup AlwaysKeys |-> value(k)]

NoFeatures == [k \in {} |-> Num(0)]

\* the column list _prepare_features returns for the synthetic data: the keys
\* of the dict of _generate_synthetic_data, then the three derived columns
TrainColumns ==
    << "symptom_density", "water_quality_score", "temperature_anomaly",
       "population_density", "recent_outbreaks", "seasonal_factor",
       "weather_conditions", "ph_level", "turbidity", "tds_level", "location_type",
       "time_of_year", "water_quality_risk", "temperature_risk", "population_risk" >>

\* the column list of an artifact written by an earlier release
OldColumns ==
    <<"severity_score", "rainfall", "water_quality_score", "symptom_density">>

ColumnLists == {TrainColumns, OldColumns}

\* a PredictionRequest without sensor data and health reports
EmptyRequest == [sensor_data |-> Absent(<<>>), health_reports |-> Absent(<<>>)]

\* nothing has been predicted or explained yet, and no request processed
NoPrediction ==
    /\ request = EmptyRequest
    /\ processed = <<>>
    /\ features_df = <<>>
    /\ risk_level = "none"
    /\ contributing_factors = <<>>
    /\ recommendations = <<>>

\* no request is being processed
NoRequest ==
    /\ data = [sensor_data |-> Absent(<<>>), health_reports |-> Absent(<<>>),
               location |-> Absent(CHOOSE l \in Locations : TRUE)]
    /\ month = 1
    /\ features = NoFeatures
    /\ phase = "idle"
    /\ columns = TrainColumns
    /\ NoPrediction

\* calendar months of the four seasons: seasonal risk 0.8, 0.7, 0.2 and 0.6
Months == {1, 3, 7, 10}

AnyRequest ==
    /\ data \in Requests
    /\ month \in Months
    /\ features = NoFeatures
    /\ phase = "request"
    /\ columns \in ColumnLists
    /\ NoPrediction

\* features = self._extract_features(data)
ExtractFeatures ==
    /\ phase = "request"
    /\ \E draw \in LogNormalDraws : features' = _extract_features(data, month, draw)
    /\ phase' = "extracted"
    /\ UNCHANGED <<data, month, columns, features_df, risk_level,
                   contributing_factors, recommendations, request, processed>>
    /\ UNCHANGED <<lvars, svars, gvars>>

-----------------------------------------------------------------------------
(* Prediction on the extracted features, and its explanation *)

RAbs(a) == [n |-> Abs(a.n), d |-> a.d]

\* features.get(key, 0), whatever the default
get_with_zero_default(f, key, default) == IF key \in DOMAIN f THEN f[key] ELSE Num(0)

\* features.get(key, default)
FGet(f, key, default) == IF key \in DOMAIN f THEN f[key] ELSE default

\* factors.append(s) under `if c`
Append1(c, s) == IF c THEN <<s>> ELSE <<>>

\* xs[:n]
Take(xs, n) == SubSeq(xs, 1, IF Len(xs) < n THEN Len(xs) ELSE n)

FactorStrings ==
    << "High symptom density in the area",
       "Poor water quality detected",
       "Unusual temperature patterns",
       "High population density",
       "Recent outbreak history in the area",
       "Seasonal risk factors present" >>

\* the factors list before `return factors[:5]`
TriggeredFactors(f) ==
            Append1(RLess(Num(3), FGet(f, "symptom_density", Num(0))), FactorStrings[1])
         \o Append1(RLess(FGet(f, "water_quality_score", Num(7)), Rat(13, 2)),
                    FactorStrings[2])
         \o Append1(RLess(Num(5), RAbs(FGet(f, "temperature_anomaly", Num(0)))),
                    FactorStrings[3])
         \o Append1(RLess(Num(1000), FGet(f, "population_density", Num(0))),
                    FactorStrings[4])
         \o Append1(RLess(Num(0), FGet(f, "recent_outbreaks", Num(0))), FactorStrings[5])
         \o Append1(RLess(Rat(7, 10), FGet(f, "seasonal_factor", Rat(1, 2))),
                    FactorStrings[6])

\* `return factors`, without the cut
factors_uncut(f) == TriggeredFactors(f)

_identify_contributing_factors(f) == Take(TriggeredFactors(f), 5)

HighList ==
    << "Issue immediate public health alert",
       "Increase monitoring frequency",
       "Implement containment measures",
       "Notify health authorities",
       "Consider temporary restrictions" >>

MediumList ==
    << "Increase surveillance in the area",
       "Monitor water quality closely",
       "Prepare response protocols",
       "Inform local health workers",
       "Track symptom patterns" >>

LowList ==
    << "Continue routine monitoring",
       "Maintain current surveillance levels",
       "Monitor for any changes",
       "Keep response teams on standby" >>

WaterExtra == "Investigate and improve water quality"

SymptomExtra == "Investigate symptom clusters"

\* _generate_recommendations with the two feature-triggered extras appended
\* in the other order
recommendations_symptoms_first(level, f) ==
    LET base == IF level = "high" THEN HighList
                ELSE IF level = "medium" THEN MediumList
                ELSE LowList
        all == base
            \o Append1(RLess(Num(2), FGet(f, "symptom_density", Num(0))), SymptomExtra)
            \o Append1(RLess(FGet(f, "water_quality_score", Num(7)), Rat(13, 2)), WaterExtra)
    IN  Take(all, 8)

_generate_recommendations(level, f) ==
    LET base == IF level = "high" THEN HighList
                ELSE IF level = "medium" THEN MediumList
                ELSE LowList
        all == base
            \o Append1(RLess(FGet(f, "water_quality_score", Num(7)), Rat(13, 2)), WaterExtra)
            \o Append1(RLess(Num(2), FGet(f, "symptom_density", Num(0))), SymptomExtra)
    IN  Take(all, 8)

\* the columns of self.feature_columns without `features_df[self.feature_columns]`
\* putting them in the order of the list
align_without_reorder(f, cols) ==
    [i \in 1..Len(cols) |->
        LET c == cols[Len(cols) + 1 - i]
        IN  [col |-> c, value |-> IF c \in DOMAIN f THEN f[c] ELSE Num(0)]]

\* predict(), lines 191-199: the columns of self.feature_columns in that
\* order, a column the features lack being filled with 0
AlignFeatures(f, cols) ==
    [i \in 1..Len(cols) |->
        [col |-> cols[i], value |-> IF cols[i] \in DOMAIN f THEN f[cols[i]] ELSE Num(0)]]

\* the columns _prepare_features adds
DerivedColumns == {"water_quality_risk", "temperature_risk", "population_risk"}

\* _prepare_features, lines 286-295, on one row without missing values: the
\* row with the three derived columns assigned
_prepare_features(X) ==
    [c \in DOMAIN X \cup DerivedColumns |->
        CASE c = "water_quality_risk" ->
                IF RLess(X["water_quality_score"], Rat(13, 2)) THEN Num(1) ELSE Num(0)
          [] c = "temperature_risk" ->
                IF RLess(Num(5), RAbs(X["temperature_anomaly"])) THEN Num(1) ELSE Num(0)
          [] c = "population_risk" ->
                IF RLess(Num(1000), X["population_density"]) THEN Num(1) ELSE Num(0)
          [] OTHER -> X[c]]

\* the row of a one-row frame, by column
RowOf(df) ==
    [c \in {df[i].col : i \in 1..Len(df)} |->
        df[CHOOSE i \in 1..Len(df) : df[i].col = c].value]

\* risk_levels, indexed by the class the model predicts
RiskLevels == <<"low", "medium", "high">>

\* the rest of predict(), lines 191-231, on a fitted model: the class is the
\* model's choice
Infer ==
    /\ phase = "extracted"
    /\ features_df' = AlignFeatures(features, columns)
    /\ \E class \in 0..2 :
          /\ risk_level' = RiskLevels[class + 1]
          /\ recommendations' = _generate_recommendations(RiskLevels[class + 1], features)
    /\ contributing_factors' = _identify_contributing_factors(features)
    /\ phase' = "predicted"
    /\ UNCHANGED <<data, month, features, columns, request, processed>>
    /\ UNCHANGED <<lvars, svars, gvars>>

\* a feature absent from the record
Missing == [n |-> 0, d |-> 0]

\* feature records given to the two explaining functions directly
FeatureChoices ==
    [ symptom_density     : {Missing, Num(0), Num(3), Num(4)},
      water_quality_score : {Missing, Num(0), Num(6), Num(7)},
      temperature_anomaly : {Missing, Num(0), Num(-6), Num(6)},
      population_density  : {Missing, Num(0), Num(500), Num(3000)},
      recent_outbreaks    : {Missing, Num(0), Num(2)},
      seasonal_factor     : {Missing, Num(0), Rat(7, 10), Rat(4, 5)} ]

FactorKeys ==
    { "symptom_density", "water_quality_score", "temperature_anomaly",
      "population_density", "recent_outbreaks", "seasonal_factor" }

FeatureRecord(c) == [k \in {j \in FactorKeys : c[j] # Missing} |-> c[k]]

FeatureRecords == {FeatureRecord(c) : c \in FeatureChoices}

\* the risk_level argument of _generate_recommendations
LevelArgs == {"low", "medium", "high", "critical"}

AnyFeatureRecord ==
    /\ data = [sensor_data |-> Absent(<<>>), health_reports |-> Absent(<<>>),
               location |-> Absent(CHOOSE l \in Locations : TRUE)]
    /\ month = 1
    /\ features \in FeatureRecords
    /\ phase = "features"
    /\ columns = TrainColumns
    /\ features_df = <<>>
    /\ risk_level \in LevelArgs
    /\ contributing_factors = <<>>
    /\ recommendations = <<>>
    /\ request = EmptyRequest
    /\ processed = <<>>

\* contributing_factors = self._identify_contributing_factors(features)
IdentifyFactors ==
    /\ phase \in {"features", "recommendations"}
    /\ contributing_factors' = _identify_contributing_factors(features)
    /\ phase' = IF phase = "features" THEN "factors" ELSE "explained"
    /\ UNCHANGED <<data, month, features, columns, features_df, risk_level, recommendations,
                   request, processed>>
    /\ UNCHANGED <<lvars, svars, gvars>>

\* recommendations = self._generate_recommendations(risk_level, features)
GenerateRecommendations ==
    /\ phase \in {"features", "factors"}
    /\ recommendations' = _generate_recommendations(risk_level, features)
    /\ phase' = IF phase = "features" THEN "recommendations" ELSE "explained"
    /\ UNCHANGED <<data, month, features, columns, features_df, risk_level,
                   contributing_factors, request, processed>>
    /\ UNCHANGED <<lvars, svars, gvars>>

-----------------------------------------------------------------------------
(* main.py's DataProcessor *)

\* the length of the array process_prediction_request returns
VectorLength == 8

\* SensorData and HealthReport objects that passed validation; no value of a
\* report is a value of a reading
SensorInputs ==
    { [ph |-> 7, turbidity |-> 20, temperature |-> 25, tds |-> 150],
      [ph |-> 6, turbidity |-> 60, temperature |-> 35, tds |-> 800],
      [ph |-> 8, turbidity |-> 40, temperature |-> 30, tds |-> 300] }

ReportInputs ==
    { [symptoms |-> <<"fever", "cough", "nausea", "diarrhea">>, severity |-> 9],
      [symptoms |-> <<"fever">>, severity |-> 3],
      [symptoms |-> <<"fever", "cough">>, severity |-> 5] }

\* PredictionRequest: each list is None (absent) or a list
PredictionRequests ==
    [ sensor_data    : {Absent(<<>>)} \cup {Given(l) : l \in SeqsUpTo(SensorInputs, MaxReadings)},
      health_reports : {Absent(<<>>)} \cup {Given(l) : l \in SeqsUpTo(ReportInputs, MaxReports)} ]

RECURSIVE SensorValues(_)
\* features.extend([sensor.ph, sensor.turbidity, sensor.temperature, sensor.tds])
SensorValues(ss) ==
    IF ss = <<>> THEN <<>>
    ELSE <<Head(ss).ph, Head(ss).turbidity, Head(ss).temperature, Head(ss).tds>>
            \o SensorValues(Tail(ss))

RECURSIVE ReportValues(_)
\* features.extend([len(report.symptoms), report.severity])
ReportValues(rs) ==
    IF rs = <<>> THEN <<>>
    ELSE <<Len(Head(rs).symptoms), Head(rs).severity>> \o ReportValues(Tail(rs))

\* features.append(0.0) while len(features) < 8
Pad(xs, n) == xs \o [i \in 1..(IF Len(xs) < n THEN n - Len(xs) ELSE 0) |-> 0]

\* the padded list, without the cut `features[:8]`
process_without_cut(req) ==
    Pad( (IF Truthy(req.sensor_data) THEN SensorValues(req.sensor_data.value) ELSE <<>>)
         \o (IF Truthy(req.health_reports) THEN ReportValues(req.health_reports.value)
             ELSE <<>>),
         VectorLength )

\* DataProcessor.process_prediction_request, lines 73-93
process_prediction_request(req) ==
    LET sensors == IF Truthy(req.sensor_data) THEN SensorValues(req.sensor_data.value)
                   ELSE <<>>
        reports == IF Truthy(req.health_reports) THEN ReportValues(req.health_reports.value)
                   ELSE <<>>
    IN  Take(Pad(sensors \o reports, VectorLength), VectorLength)

\* a request has been received
AnyPredictionRequest ==
    /\ data = [sensor_data |-> Absent(<<>>), health_reports |-> Absent(<<>>),
               location |-> Absent(CHOOSE l \in Locations : TRUE)]
    /\ month = 1
    /\ features = NoFeatures
    /\ phase = "received"
    /\ columns = TrainColumns
    /\ features_df = <<>>
    /\ risk_level = "none"
    /\ contributing_factors = <<>>
    /\ recommendations = <<>>
    /\ request \in PredictionRequests
    /\ processed = <<>>

\* processed_data = await data_processor.process_prediction_request(request)
ProcessRequest ==
    /\ phase = "received"
    /\ processed' = process_prediction_request(request)
    /\ phase' = "processed"
    /\ UNCHANGED <<data, month, features, columns, features_df, risk_level,
                   contributing_factors, recommendations, request>>
    /\ UNCHANGED <<lvars, svars, gvars>>

-----------------------------------------------------------------------------
(* The synthetic training data *)

\* rows of a generated dataset (n_samples), and calls recorded in a behaviour
NSamples == 2
MaxCalls == 4

\* np.random.seed(42)
Seed == 42

\* seeds the process can have started with
InitialSeeds == {Seed, 7}

\* the k-th value of the stream of seed s, as one of three levels
Stream(s, k) == ((((s + 1) * (k + 1) * (k + 2)) \div 2) + (k \div 3) + (k \div 7)) % 3

\* np.random.seed left out: the generator goes on from where it is
seed_ignored(r, s) == r

\* np.random.seed(s)
np_random_seed(r, s) == [seed |-> s, pos |-> 0]

\* the next n values of the generator
Draws(r, n) == [k \in 1..n |-> Stream(r.seed, r.pos + k - 1)]

Advance(r, n) == [r EXCEPT !.pos = r.pos + n]

\* the columns of _generate_synthetic_data, in the order they are drawn
SyntheticColumns == SubSeq(TrainColumns, 1, 12)

\* the values a draw at level 0, 1, 2 stands for in each column of the risk score
Levels ==
    [ symptom_density     |-> <<Num(0), Num(3), Num(12)>>,
      water_quality_score |-> <<Num(4), Rat(15, 2), Num(10)>>,
      temperature_anomaly |-> <<Num(-9), Num(0), Num(9)>>,
      population_density  |-> <<Num(400), Num(3000), Num(9000)>>,
      recent_outbreaks    |-> <<Num(0), Num(1), Num(4)>>,
      seasonal_factor     |-> <<Num(0), Rat(1, 2), Rat(9, 10)>> ]

ScoreColumns == DOMAIN Levels

\* the value of a draw in a column; the other columns keep the level
ColumnValue(col, u) == IF col \in ScoreColumns THEN Levels[col][u + 1] ELSE Num(u)

\* a * n / d
RScale(a, n, d) == Rat(a.n * n, a.d * d)

\* risk_score, lines 260-267
risk_score(r) ==
    RSum(<< RScale(r["symptom_density"], 3, 10),
            RScale(RSub(Num(8), r["water_quality_score"]), 2, 10),
            RScale(RAbs(r["temperature_anomaly"]), 1, 10),
            RScale(RDiv(r["population_density"], 1000), 2, 10),
            RScale(r["recent_outbreaks"], 1, 10),
            RScale(r["seasonal_factor"], 1, 10) >>)

\* the thresholds taken in the other direction
threshold_reversed(score) ==
    IF RLess(score, Num(2)) THEN 2 ELSE IF RLess(score, Num(4)) THEN 1 ELSE 0

\* np.where(risk_score < 2, 0, np.where(risk_score < 4, 1, 2))
Threshold(score) ==
    IF RLess(score, Num(2)) THEN 0 ELSE IF RLess(score, Num(4)) THEN 1 ELSE 2

SyntheticLabel(r) == Threshold(risk_score(r))

\* _generate_synthetic_data, lines 237-273: seed, one column after the other,
\* then the labels
_generate_synthetic_data(r) ==
    LET seeded == np_random_seed(r, Seed)
        n == NSamples
        u == Draws(seeded, 12 * n)
        X == [i \in 1..n |->
                [c \in {SyntheticColumns[j] : j \in 1..12} |->
                    ColumnValue(c, u[(CHOOSE j \in 1..12 : SyntheticColumns[j] = c) * n - n + i])]]
    IN  [ rng |-> Advance(seeded, 12 * n),
          X |-> X,
          y |-> [i \in 1..n |-> SyntheticLabel(X[i])] ]

\* main.py _generate_sample_data, lines 170-181 and 268-279: seed,
\* randn(n_samples, 8), then the labels by np.random.choice
_generate_sample_data(r) ==
    LET seeded == np_random_seed(r, Seed)
        n == NSamples
        u == Draws(seeded, 9 * n)
    IN  [ rng |-> Advance(seeded, 9 * n),
          X |-> [i \in 1..n |-> [j \in 1..8 |-> Num(u[8 * (i - 1) + j])]],
          y |-> [i \in 1..n |-> u[8 * n + i]] ]

Generators == {"OutbreakPredictor", "HealthRiskAssessor"}

\* no row is being labelled
NoRows ==
    /\ row = [c \in ScoreColumns |-> Levels[c][1]]
    /\ other = row
    /\ feature = "none"
    /\ labels = <<>>

\* the generator has not been used
NoGenerator ==
    /\ rng = [seed |-> Seed, pos |-> 0]
    /\ calls = <<>>
    /\ NoRows

\* the process has started, its generator in any state
AnyGenerator ==
    /\ rng \in [seed : InitialSeeds, pos : {0}]
    /\ calls = <<>>
    /\ NoRows

\* X, y = self._generate_synthetic_data() (models/outbreak_predictor.py)
GenerateSyntheticData ==
    /\ Len(calls) < MaxCalls
    /\ LET r == _generate_synthetic_data(rng)
       IN  /\ rng' = r.rng
           /\ calls' = Append(calls, [by |-> "_generate_synthetic_data", X |-> r.X, y |-> r.y])
    /\ UNCHANGED <<row, other, feature, labels>>
    /\ UNCHANGED <<lvars, fvars, svars>>

\* X, y = self._generate_sample_data() of one of main.py's predictors
GenerateSampleData(name) ==
    /\ Len(calls) < MaxCalls
    /\ LET r == _generate_sample_data(rng)
       IN  /\ rng' = r.rng
           /\ calls' = Append(calls, [by |-> name, X |-> r.X, y |-> r.y])
    /\ UNCHANGED <<row, other, feature, labels>>
    /\ UNCHANGED <<lvars, fvars, svars>>

\* np.random.lognormal in _estimate_population_density, lines 373-376
DrawPopulationDensity ==
    /\ Len(calls) < MaxCalls
    /\ rng' = Advance(rng, 1)
    /\ calls' = Append(calls, [by |-> "_estimate_population_density", X |-> <<>>,
                               y |-> Draws(rng, 1)])
    /\ UNCHANGED <<row, other, feature, labels>>
    /\ UNCHANGED <<lvars, fvars, svars>>

\* rows of the synthetic data frame, in the columns of the risk score
SyntheticRows == {[c \in ScoreColumns |-> Levels[c][l[c]]] : l \in [ScoreColumns -> 1..3]}

\* two rows that differ in the value of one feature
AnyRowPair ==
    /\ rng = [seed |-> Seed, pos |-> 0]
    /\ calls = <<>>
    /\ row \in SyntheticRows
    /\ feature \in ScoreColumns
    /\ \E l \in 1..3 :
          /\ Levels[feature][l] # row[feature]
          /\ other = [row EXCEPT ![feature] = Levels[feature][l]]
    /\ labels = <<>>

\* y for the two rows, as line 271 assigns it
LabelRows ==
    /\ feature # "none"
    /\ labels = <<>>
    /\ labels' = <<SyntheticLabel(row), SyntheticLabel(other)>>
    /\ UNCHANGED <<rng, calls, row, other, feature>>
    /\ UNCHANGED <<lvars, fvars, svars>>

-----------------------------------------------------------------------------
(* The service of main.py *)

\* requests handled, and changes made to the files from outside, in a behaviour
MaxHandled == 3

HTTP_503 == 503
HTTP_500 == 500

\* the module-level predictors
Names == {"outbreak", "health_risk"}

\* self.model: None, or a classifier built by the training run started at
\* time `run` (0: by an earlier process)
SvcNoModel == [obj |-> "None", fitted |-> FALSE, run |-> 0]
Classifier(name, run, fitted) ==
    [ obj    |-> IF name = "outbreak" THEN "RandomForestClassifier"
                 ELSE "GradientBoostingClassifier",
      fitted |-> fitted,
      run    |-> run ]

\* main.py's OutbreakPredictor.__init__ and HealthRiskAssessor.__init__;
\* `made` tells whether the module-level variable holds the object
SvcInit ==
    [ made |-> FALSE, model |-> SvcNoModel, version |-> "1.0.0",
      last_trained |-> NoTime, is_trained |-> FALSE ]

SvcNoFile == [file |-> "missing", model |-> SvcNoModel]
SvcCorruptFile == [file |-> "corrupt", model |-> SvcNoModel]
SvcModelFile(m) == [file |-> "model", model |-> m]

\* the states each file can be in when the process starts
ServiceFiles ==
    [Names -> {SvcNoFile, SvcCorruptFile}]
        \cup {[name \in Names |-> SvcModelFile(Classifier(name, 0, TRUE))]}

\* how a call of train() goes: fit may raise, joblib.dump may raise and leave
\* the old file or a truncated one
TrainOutcomes == {"ok", "fit_raises", "dump_raises", "dump_truncates"}

\* main.py train(), lines 145-168, entered at time `now`
SvcTrain(p, f, name, now, o) ==
    CASE o = "fit_raises" ->
            [ p |-> [p EXCEPT !.model = Classifier(name, now, FALSE)],
              file |-> f, raised |-> TRUE ]
      [] o = "dump_raises" ->
            [ p |-> [p EXCEPT !.model = Classifier(name, now, TRUE)],
              file |-> f, raised |-> TRUE ]
      [] o = "dump_truncates" ->
            [ p |-> [p EXCEPT !.model = Classifier(name, now, TRUE)],
              file |-> SvcCorruptFile, raised |-> TRUE ]
      [] o = "ok" ->
            [ p |-> [p EXCEPT !.model = Classifier(name, now, TRUE),
                              !.is_trained = TRUE,
                              !.last_trained = now],
              file |-> SvcModelFile(Classifier(name, now, TRUE)), raised |-> FALSE ]

\* main.py load_or_train(), lines 130-143: o1 and o2 are the outcomes of the
\* first and of the second call of train(), when they are made
SvcLoadOrTrain(p, f, name, now, o1, o2) ==
    IF f.file = "model"
    THEN [ p |-> [p EXCEPT !.model = f.model, !.is_trained = TRUE],
           file |-> f, raised |-> FALSE, trains |-> 0, now |-> now ]
    ELSE IF f.file = "corrupt"
    THEN \* joblib.load raises; the handler calls train()
         LET r == SvcTrain(p, f, name, now, o1)
         IN  [p |-> r.p, file |-> r.file, raised |-> r.raised, trains |-> 1, now |-> now + 1]
    ELSE \* no file: train(); if it raises, the handler calls train() again
         LET r1 == SvcTrain(p, f, name, now, o1)
             r2 == SvcTrain(r1.p, r1.file, name, now + 1, o2)
         IN  IF ~r1.raised
             THEN [ p |-> r1.p, file |-> r1.file, raised |-> FALSE, trains |-> 1,
                    now |-> now + 1 ]
             ELSE [ p |-> r2.p, file |-> r2.file, raised |-> r2.raised, trains |-> 2,
                    now |-> now + 2 ]

\* `logger` is a logging.Logger (line 50): a call that passes fields as keyword
\* arguments, logger.info(msg, risk_level=...), logger.error(msg, error=...),
\* raises TypeError
LoggerTakesFields == FALSE

\* the predictor is in the trained state: its readiness check passes and the
\* model is fitted
SvcTrained(p) == p.is_trained /\ p.model.obj # "None" /\ p.model.fitted

\* main.py predict(), lines 183-212: the status of the HTTPException it
\* raises, or 200 when it returns a result
SvcPredict(p) ==
    IF ~p.is_trained \/ p.model.obj = "None" THEN HTTP_503
    ELSE IF ~p.model.fitted THEN HTTP_500
    ELSE 200

\* predict_outbreak / predict_health_risk, lines 492-552: the status of the
\* response; every exception raised in the try block, an HTTPException
\* included, reaches `except Exception`
PredictStatus(p) ==
    IF ~p.made THEN HTTP_503
    ELSE LET inner == SvcPredict(p)
             bodyRaises == inner # 200 \/ ~LoggerTakesFields
         IN  IF bodyRaises THEN HTTP_500 ELSE 200

\* the response to a request and, for a training request, what became of the
\* background run: `body` is the "status" of the JSON body, `queued` whether
\* add_task was called, `run` what the run recorded in TRAINING_COUNTER,
\* `entered` whether the body of train() was entered, `outcome` how the steps
\* of a training run would go, `stamped` whether last_trained was assigned,
\* `data_source` the data source the request names
NoResp ==
    [ endpoint |-> "none", name |-> "", status |-> 0, reached |-> FALSE,
      trained |-> FALSE, inner |-> 0, trains |-> 0,
      body |-> "", queued |-> FALSE, run |-> "none", entered |-> FALSE,
      outcome |-> "", stamped |-> FALSE, data_source |-> "" ]

NoService ==
    /\ app = "off"
    /\ svc = [name \in Names |-> SvcInit]
    /\ files = [name \in Names |-> SvcNoFile]
    /\ stamp = 1
    /\ handled = 0
    /\ resp = NoResp

ServiceDown(initialFiles) ==
    /\ app = "down"
    /\ svc = [name \in Names |-> SvcInit]
    /\ files \in initialFiles
    /\ stamp = 1
    /\ handled = 0
    /\ resp = NoResp

\* load_or_train() of both predictors in turn, as startup_event and
\* reload_models call it; the second is not called when the first raises
LoadBoth(ps, o) ==
    LET a == SvcLoadOrTrain(ps["outbreak"], files["outbreak"], "outbreak", stamp, o[1], o[2])
        b == SvcLoadOrTrain(ps["health_risk"], files["health_risk"], "health_risk",
                            a.now, o[3], o[4])
    IN  IF ~ps["outbreak"].made
        THEN [ svc |-> ("outbreak" :> ps["outbreak"]) @@ ("health_risk" :> b.p),
               files |-> ("outbreak" :> files["outbreak"]) @@ ("health_risk" :> b.file),
               raised |-> b.raised, now |-> b.now, trains |-> b.trains ]
        ELSE IF a.raised
        THEN [ svc |-> ("outbreak" :> a.p) @@ ("health_risk" :> ps["health_risk"]),
               files |-> ("outbreak" :> a.file) @@ ("health_risk" :> files["health_risk"]),
               raised |-> TRUE, now |-> a.now, trains |-> a.trains ]
        ELSE IF ~ps["health_risk"].made
        THEN [ svc |-> ("outbreak" :> a.p) @@ ("health_risk" :> ps["health_risk"]),
               files |-> ("outbreak" :> a.file) @@ ("health_risk" :> files["health_risk"]),
               raised |-> FALSE, now |-> a.now, trains |-> a.trains ]
        ELSE [ svc |-> ("outbreak" :> a.p) @@ ("health_risk" :> b.p),
               files |-> ("outbreak" :> a.file) @@ ("health_risk" :> b.file),
               raised |-> b.raised, now |-> b.now,
               trains |-> IF a.trains > b.trains THEN a.trains ELSE b.trains ]

\* startup_event, lines 410-452: the predictors are constructed and loaded or
\* trained; an exception ends the startup, and the server exits
Startup ==
    /\ app = "down"
    /\ \E o \in [1..4 -> TrainOutcomes] :
          LET made1 == [svc EXCEPT !["outbreak"].made = TRUE]
              first == SvcLoadOrTrain(made1["outbreak"], files["outbreak"], "outbreak",
                                      stamp, o[1], o[2])
              made2 == [made1 EXCEPT !["health_risk"].made = ~first.raised]
              r == LoadBoth(made2, o)
          IN  /\ svc' = r.svc
              /\ files' = r.files
              /\ stamp' = r.now
              /\ app' = IF r.raised THEN "exited" ELSE "serving"
              /\ resp' = [NoResp EXCEPT !.endpoint = "startup", !.trains = r.trains,
                                        !.status = IF r.raised THEN HTTP_500 ELSE 200]
    /\ UNCHANGED handled
    /\ UNCHANGED <<lvars, fvars, gvars>>

\* POST /predict/outbreak and POST /predict/health-risk
PredictEndpoint(name) ==
    /\ app = "serving"
    /\ handled < MaxHandled
    /\ handled' = handled + 1
    /\ resp' = [ NoResp EXCEPT
                   !.endpoint = "predict",
                   !.name = name,
                   !.status = PredictStatus(svc[name]),
                   !.reached = svc[name].made,
                   !.trained = SvcTrained(svc[name]),
                   !.inner = SvcPredict(svc[name]) ]
    /\ UNCHANGED <<app, svc, files, stamp>>
    /\ UNCHANGED <<lvars, fvars, gvars>>

\* POST /models/reload, lines 657-672
ReloadModels ==
    /\ app = "serving"
    /\ handled < MaxHandled
    /\ handled' = handled + 1
    /\ \E o \in [1..4 -> TrainOutcomes] :
          LET r == LoadBoth(svc, o)
          IN  /\ svc' = r.svc
              /\ files' = r.files
              /\ stamp' = r.now
              /\ resp' = [NoResp EXCEPT !.endpoint = "reload", !.trains = r.trains,
                                        !.status = IF r.raised THEN HTTP_500 ELSE 200]
    /\ UNCHANGED app
    /\ UNCHANGED <<lvars, fvars, gvars>>

\* main.py's train() is `async def train(self)`, lines 145 and 243: a call
\* that passes data_source and parameters raises TypeError before the body
TrainTakesArguments == FALSE

\* _train_model_background, lines 675-694, run at time `now`: o is how the
\* steps of train() go when its body is entered
_train_model_background(ps, fs, name, now, o) ==
    IF ~TrainTakesArguments
    THEN [ svc |-> ps, files |-> fs, now |-> now, run |-> "failed", entered |-> FALSE,
           stamped |-> FALSE ]
    ELSE LET r == SvcTrain(ps[name], fs[name], name, now, o)
         IN  [ svc |-> [ps EXCEPT ![name] = r.p],
               files |-> [fs EXCEPT ![name] = r.file],
               now |-> now + 1,
               run |-> IF r.raised THEN "failed" ELSE "completed",
               entered |-> TRUE,
               stamped |-> ~r.raised ]

\* what a run that is never started leaves
NoRun(ps, fs, now) ==
    [ svc |-> ps, files |-> fs, now |-> now, run |-> "none", entered |-> FALSE,
      stamped |-> FALSE ]

DataSources == {"synthetic", "database"}

\* POST /train/outbreak-model and POST /train/health-risk-model, lines
\* 555-601, and the background run. model_trainer is set once the service is
\* up. The task is added, then logger.info(..., data_source=...) is called;
\* when it raises, so does the logger.error(..., error=...) of the handler:
\* the server answers 500 and the tasks, which go with the response the
\* function returns, are never run.
TrainEndpoint(name) ==
    /\ app = "serving"
    /\ handled < MaxHandled
    /\ handled' = handled + 1
    /\ \E ds \in DataSources, o \in TrainOutcomes :
          LET returns == LoggerTakesFields
              r == IF returns THEN _train_model_background(svc, files, name, stamp, o)
                   ELSE NoRun(svc, files, stamp)
          IN  /\ svc' = r.svc
              /\ files' = r.files
              /\ stamp' = r.now
              /\ resp' = [ NoResp EXCEPT
                             !.endpoint = "train",
                             !.name = name,
                             !.reached = TRUE,
                             !.status = IF returns THEN 200 ELSE HTTP_500,
                             !.body = IF returns THEN "training" ELSE "",
                             !.queued = TRUE,
                             !.run = r.run,
                             !.entered = r.entered,
                             !.outcome = o,
                             !.data_source = ds,
                             !.stamped = r.stamped ]
    /\ UNCHANGED app
    /\ UNCHANGED <<lvars, fvars, gvars>>

\* a model file is removed or damaged from outside the process
ArtifactDamaged(name) ==
    /\ app = "serving"
    /\ handled < MaxHandled
    /\ handled' = handled + 1
    /\ files[name].file = "model"
    /\ \E f \in {SvcNoFile, SvcCorruptFile} : files' = [files EXCEPT ![name] = f]
    /\ resp' = NoResp
    /\ UNCHANGED <<app, svc, stamp>>
    /\ UNCHANGED <<lvars, fvars, gvars>>

Init == InitLifecycle(InitialArtifacts) /\ NoRequest /\ NoService /\ NoGenerator

Spec == Init /\ [][Next]_vars

InitFeatures == InitLifecycle({NoFile}) /\ AnyRequest /\ NoService /\ NoGenerator

NextFeatures == ExtractFeatures \/ Infer

SpecFeatures == InitFeatures /\ [][NextFeatures]_vars

InitExplain == InitLifecycle({NoFile}) /\ AnyFeatureRecord /\ NoService /\ NoGenerator

NextExplain == IdentifyFactors \/ GenerateRecommendations

SpecExplain == InitExplain /\ [][NextExplain]_vars

InitSynthetic == InitLifecycle({NoFile}) /\ NoRequest /\ NoService /\ AnyGenerator

NextSynthetic ==
    \/ GenerateSyntheticData
    \/ \E name \in Generators : GenerateSampleData(name)
    \/ DrawPopulationDensity

SpecSynthetic == InitSynthetic /\ [][NextSynthetic]_vars

InitLabels == InitLifecycle({NoFile}) /\ NoRequest /\ NoService /\ AnyRowPair

NextLabels == LabelRows

SpecLabels == InitLabels /\ [][NextLabels]_vars

InitProcessor ==
    InitLifecycle({NoFile}) /\ AnyPredictionRequest /\ NoService /\ NoGenerator

NextProcessor == ProcessRequest

SpecProcessor == InitProcessor /\ [][NextProcessor]_vars

InitService == InitLifecycle({NoFile}) /\ NoRequest /\ ServiceDown(ServiceFiles) /\ NoGenerator

NextService ==
    \/ Startup
    \/ \E name \in Names : PredictEndpoint(name)
    \/ ReloadModels
    \/ \E name \in Names : TrainEndpoint(name)
    \/ \E name \in Names : ArtifactDamaged(name)

SpecService == InitService /\ [][NextService]_vars

-----------------------------------------------------------------------------
(* Properties of the predictor's lifecycle (Spec) *)

\* predict() passes its readiness check and the classifier answers
Usable(p) == \A x \in Inputs : predict(p, x).out = "ok"

\* the two predictors answer every request alike
SameAnswers(p, q) == \A x \in Inputs : predict(p, x) = predict(q, x)

\* the training run of task i has been entered and has not returned or raised
TrainPcs == {"train", "split", "build", "fit", "save", "stamp"}

TrainingRuns == {i \in Tasks : tasks[i].pc \in TrainPcs}

\* what load_model leaves in self.* when it restores the whole payload
Restored(d) ==
    [ model           |-> d.model,
      scaler          |-> d.scaler,
      label_encoder   |-> d.label_encoder,
      feature_columns |-> d.feature_columns,
      version         |-> IF "version" \in d.keys THEN d.version ELSE "1.0.0",
      last_trained    |-> IF "last_trained" \in d.keys THEN d.last_trained ELSE NoTime ]

\* C1: every load_or_train() call returns without raising and leaves the
\* predictor trained (predict() passes its readiness check on a usable model),
\* whatever the state of the artifact and whether or not training raises.
C1_LoadOrTrainTotal ==
    (ev.call = "load_or_train" /\ ev.out # "none")
        => (ev.out = "ok" /\ Usable(predictor))

\* C2: when train() raises while a usable model is active, self.model,
\* self.feature_columns, self.version and self.last_trained are what they were
\* when train() was entered, and predict() answers as it did before.
C2_FailedTrainKeepsModel ==
    (ev.train = "raised" /\ Usable(snap))
        => /\ predictor.model = snap.model
           /\ predictor.feature_columns = snap.feature_columns
           /\ predictor.version = snap.version
           /\ predictor.last_trained = snap.last_trained
           /\ SameAnswers(predictor, snap)

\* C3: predict() on a predictor on which no load and no training run has ever
\* succeeded raises the not-ready error, and nothing else.
C3_NotReadyBeforeSuccess ==
    (ev.call = "predict" /\ ~ever_ready)
        => (ev.out = "raised" /\ ev.err = NotReady)

\* C4: a load_or_train() call that could not load (artifact missing, corrupt
\* or partial) runs train() on the synthetic data and raises no load error.
C4_LoadFailureFallsBackToTrain ==
    (ev.call = "load_or_train" /\ ev.out # "none" /\ ev.load # "ok")
        => /\ ev.load = "none"
           /\ ev.train # "none"
           /\ ev.data_source = "synthetic"

\* C5: after load_model() has run, either all six attributes hold the
\* payload's values or (the load having failed) all are what they were before.
C5_LoadIsAtomic ==
    (ev.load # "none")
        => \/ ev.load = "ok" /\ predictor = Restored(disk.data)
           \/ ev.load = "raised" /\ predictor = snap

\* C6: at most one training run of the predictor is in progress at a time.
C6_OneTrainingRunAtATime == Cardinality(TrainingRuns) <= 1

\* C6 witness: a training run is in progress while another training request
\* or a reload is waiting to start.
C6_Witness ==
    \E i, j \in Tasks :
        /\ tasks[i].pc \in {"split", "build", "fit", "save", "stamp"}
        /\ tasks[j].pc = "pending"
        /\ tasks[j].kind \in {"train", "load_or_train"}

\* C7: a predict() that overlapped a retrain or reload and reached the
\* classifier used a fitted pipeline for the probabilities, the same pipeline
\* for the class, and aligned the row to that pipeline's columns.
C7_OverlappingPredictIsConsistent ==
    (ev.call = "predict" /\ ev.overlap /\ ev.res.proba_model.obj # "None")
        => /\ ev.res.proba_model.fitted
           /\ ev.res.class_model = ev.res.proba_model
           /\ ev.res.columns = ev.res.proba_model.cols

\* C9: a load_model() that succeeds on the file the last successful
\* save_model() wrote restores the model, the preprocessing state, the column
\* list and the version that were saved, and predict() answers as the saved
\* predictor did.
C9_SaveLoadRoundTrip ==
    (ev.load = "ok" /\ saved.valid)
        => /\ predictor.model = saved.p.model
           /\ predictor.scaler = saved.p.scaler
           /\ predictor.label_encoder = saved.p.label_encoder
           /\ predictor.feature_columns = saved.p.feature_columns
           /\ predictor.version = saved.p.version
           /\ SameAnswers(predictor, saved.p)

\* C9 witness: a trained predictor was saved, and a fresh predictor on the same
\* path has loaded the file and answers requests.
C9_Witness ==
    /\ ev.load = "ok"
    /\ saved.valid
    /\ snap = InitPredictor
    /\ saved.p.model.run > 0
    /\ Usable(predictor)

\* C23: after a train() that succeeded, self.last_trained is the last_trained
\* of the artifact the run wrote, so that loading the artifact would leave it
\* unchanged; and after a load_or_train() that succeeded by loading,
\* self.last_trained is a timestamp, not None.
C23_LastTrainedMatchesArtifact ==
    /\ ev.train = "ok"
          => /\ disk.file = "dict"
             /\ "last_trained" \in disk.data.keys
             /\ predictor.last_trained = disk.data.last_trained
             /\ Restored(disk.data).last_trained = predictor.last_trained
    /\ (ev.call = "load_or_train" /\ ev.load = "ok")
          => predictor.last_trained # NoTime

\* C19: a predict() call, whether it returns a result or raises, leaves the
\* predictor's model, column list, version and last-trained value, and the
\* persisted artifact, as they were.
C19_PredictIsReadOnly ==
    [][ (\E i \in Tasks : tasks[i].pc = "predict" /\ tasks'[i].pc = "done")
            => (predictor' = predictor /\ disk' = disk) ]_vars

\* C19 witness: predict() has raised an inference failure on a predictor that
\* holds a model, with an artifact on disk.
C19_Witness ==
    /\ ev.call = "predict"
    /\ ev.out = "raised"
    /\ ev.err # NotReady
    /\ predictor.model # NoModel
    /\ disk # NoFile

-----------------------------------------------------------------------------
(* Properties of feature extraction (SpecFeatures) *)

\* C10: the record _extract_features returns holds every feature, and holds
\* the neutral default of each feature whose input is absent: temperature
\* anomaly 0.0 and water-quality score 7.0 without sensor data, symptom density
\* 0 and severity score 0 without health reports, population density 500 and
\* location type urban without a location.
C10_ExtractionIsComplete ==
    phase \in {"extracted", "predicted"}
        => /\ SensorKeys \cup AlwaysKeys \subseteq DOMAIN features
           /\ ~Truthy(data.sensor_data)
                => /\ features["temperature_anomaly"] = Num(0)
                   /\ features["water_quality_score"] = Num(7)
           /\ ~Truthy(data.health_reports)
                => /\ features["symptom_density"] = Num(0)
                   /\ features["severity_score"] = Num(0)
           /\ ~data.location.given
                => /\ features["population_density"] = Num(500)
                   /\ features["location_type"] = "urban"

\* _extract_features has returned
Extracted == phase \in {"extracted", "predicted"}

\* the <<report, symptom>> positions of a list of health reports
SymptomPositions(rs) ==
    UNION { {<<k, j>> : j \in 1..Len(IF "symptoms" \in rs[k].keys THEN rs[k].symptoms ELSE <<>>)}
            : k \in 1..Len(rs) }

\* C15: for a non-empty list of health reports the symptom density is the
\* number of symptoms of all reports divided by the number of reports, and
\* when it exceeds 3 the contributing factors of the prediction start with the
\* high-symptom-density factor.
C15_SymptomDensityFlagged ==
    (Extracted /\ Truthy(data.health_reports))
        => LET rs == data.health_reports.value
               density == Rat(Cardinality(SymptomPositions(rs)), Len(rs))
           IN  /\ features["symptom_density"] = density
               /\ (phase = "predicted" /\ RLess(Num(3), density))
                    => /\ contributing_factors # <<>>
                       /\ contributing_factors[1] = "High symptom density in the area"

\* C15 witness: a prediction for reports of 4 symptoms each, without sensor
\* data, names the high symptom density first.
C15_Witness ==
    /\ phase = "predicted"
    /\ ~Truthy(data.sensor_data)
    /\ Truthy(data.health_reports)
    /\ Len(data.health_reports.value) = MaxReports
    /\ features["symptom_density"] = Num(4)
    /\ contributing_factors[1] = "High symptom density in the area"

\* C16: the row handed to the model has the columns of self.feature_columns,
\* in that order: a column the extracted features lack holds 0, a column they
\* have holds the extracted value, and an extracted key that is no trained
\* column is not in the row.
C16_RowMatchesTrainedColumns ==
    phase = "predicted"
        => /\ Len(features_df) = Len(columns)
           /\ \A i \in 1..Len(columns) :
                /\ features_df[i].col = columns[i]
                /\ IF columns[i] \in DOMAIN features
                   THEN features_df[i].value = features[columns[i]]
                   ELSE features_df[i].value = Num(0)
           /\ \A k \in DOMAIN features :
                (\A i \in 1..Len(columns) : columns[i] # k)
                    => \A i \in 1..Len(features_df) : features_df[i].col # k

\* C16 witness: a row for the columns of train(), from a request without
\* sensor data: the sensor columns and the derived columns are filled, and
\* severity_score is dropped.
C16_Witness ==
    /\ phase = "predicted"
    /\ columns = TrainColumns
    /\ ~Truthy(data.sensor_data)
    /\ "severity_score" \in DOMAIN features
    /\ "water_quality_score" \notin DOMAIN features
    /\ features_df[2] = [col |-> "water_quality_score", value |-> Num(0)]

\* C22: in the row handed to a model trained by train(), the derived columns
\* water_quality_risk, temperature_risk and population_risk hold what
\* _prepare_features derives from the row's water_quality_score,
\* temperature_anomaly and population_density.
C22_DerivedColumnsAgree ==
    (phase = "predicted" /\ columns = TrainColumns)
        => LET X == RowOf(features_df)
           IN  \A c \in DerivedColumns : X[c] = _prepare_features(X)[c]

\* C17: the severity score lies in [0,1] for every list of health reports,
\* and is 0 when there are no reports.
C17_SeverityScoreInUnitInterval ==
    Extracted
        => /\ ~RLess(features["severity_score"], Num(0))
           /\ ~RLess(Num(1), features["severity_score"])
           /\ ~Truthy(data.health_reports) => features["severity_score"] = Num(0)

-----------------------------------------------------------------------------
(* Properties of the explanation of a feature record (SpecExplain) *)

\* _identify_contributing_factors has returned
FactorsReturned == phase \in {"factors", "explained"}

\* _generate_recommendations has returned
RecommendationsReturned == phase \in {"recommendations", "explained"}

\* the neutral value of each numeric feature (spec 4.1)
NeutralValue ==
    [ symptom_density     |-> Num(0),
      water_quality_score |-> Num(7),
      temperature_anomaly |-> Num(0),
      population_density  |-> Num(500),
      recent_outbreaks    |-> Num(0),
      seasonal_factor     |-> Rat(1, 2) ]

\* every numeric feature of the record is absent, zero or at its neutral value
NeutralRecord(f) ==
    \A k \in DOMAIN f : f[k] = Num(0) \/ f[k] = NeutralValue[k]

\* C11: for a feature record whose numeric features are all zero, neutral or
\* absent, _identify_contributing_factors returns the empty list.
C11_NeutralRecordHasNoFactors ==
    (FactorsReturned /\ NeutralRecord(features)) => contributing_factors = <<>>

\* C11, amended: for a feature record whose numeric features are all zero,
\* neutral or absent, and whose water-quality score is not zero (it is absent
\* or at its neutral 7.0), _identify_contributing_factors returns the empty list.
C11_NeutralRecordWithWaterScoreHasNoFactors ==
    ( /\ FactorsReturned
      /\ NeutralRecord(features)
      /\ "water_quality_score" \in DOMAIN features
            => features["water_quality_score"] # Num(0) )
        => contributing_factors = <<>>

\* C11 witness: the empty list was returned for a record without any feature,
\* or for one whose features are all zero but for a water-quality score of 7.
C11_Witness ==
    /\ FactorsReturned
    /\ contributing_factors = <<>>
    /\ \/ DOMAIN features = {}
       \/ /\ DOMAIN features = FactorKeys
          /\ features["water_quality_score"] = Num(7)
          /\ \A k \in FactorKeys \ {"water_quality_score"} : features[k] = Num(0)

\* the six threshold rules, in their order
Rule(k, f) ==
    CASE k = 1 -> "symptom_density" \in DOMAIN f /\ RLess(Num(3), f["symptom_density"])
      [] k = 2 -> "water_quality_score" \in DOMAIN f
                    /\ RLess(f["water_quality_score"], Rat(13, 2))
      [] k = 3 -> "temperature_anomaly" \in DOMAIN f
                    /\ \/ RLess(Num(5), f["temperature_anomaly"])
                       \/ RLess(f["temperature_anomaly"], Num(-5))
      [] k = 4 -> "population_density" \in DOMAIN f
                    /\ RLess(Num(1000), f["population_density"])
      [] k = 5 -> "recent_outbreaks" \in DOMAIN f /\ RLess(Num(0), f["recent_outbreaks"])
      [] k = 6 -> "seasonal_factor" \in DOMAIN f /\ RLess(Rat(7, 10), f["seasonal_factor"])

TriggeredRules(f) == {k \in 1..6 : Rule(k, f)}

\* the i-th smallest member of a set of numbers
Nth(S, i) == CHOOSE k \in S : Cardinality({j \in S : j < k}) = i - 1

\* C13: the contributing factors are the strings of the triggered rules, in
\* the order of the six rules, cut to the first 5: never more than 5, and
\* without the seasonal factor when all six rules trigger.
C13_FactorsInRuleOrder ==
    FactorsReturned =>
        LET T == TriggeredRules(features)
            n == IF Cardinality(T) < 5 THEN Cardinality(T) ELSE 5
        IN  /\ Len(contributing_factors) = n
            /\ Len(contributing_factors) <= 5
            /\ \A i \in 1..n : contributing_factors[i] = FactorStrings[Nth(T, i)]
            /\ Cardinality(T) = 6
                 => \A i \in 1..n : contributing_factors[i] # FactorStrings[6]

\* C13 witness: all six rules trigger and five factors are returned.
C13_Witness ==
    /\ FactorsReturned
    /\ TriggeredRules(features) = 1..6
    /\ Len(contributing_factors) = 5

\* C14: the recommendations are the base list of the risk level (the low list
\* for any level other than high and medium), then the water-quality extra
\* when the water-quality score is below 6.5, then the symptom-cluster extra
\* when the symptom density is above 2; at most 8 entries, none twice.
C14_RecommendationsInOrder ==
    RecommendationsReturned =>
        LET base == CASE risk_level = "high" -> HighList
                      [] risk_level = "medium" -> MediumList
                      [] OTHER -> LowList
            water == "water_quality_score" \in DOMAIN features
                        /\ RLess(features["water_quality_score"], Rat(13, 2))
            symptoms == "symptom_density" \in DOMAIN features
                        /\ RLess(Num(2), features["symptom_density"])
            n == Len(base)
            m == Len(recommendations)
        IN  /\ m = n + (IF water THEN 1 ELSE 0) + (IF symptoms THEN 1 ELSE 0)
            /\ m <= 8
            /\ SubSeq(recommendations, 1, n) = base
            /\ water => recommendations[n + 1] = WaterExtra
            /\ symptoms => recommendations[m] = SymptomExtra
            /\ Cardinality({recommendations[i] : i \in 1..m}) = m

\* C14 witness: a high risk level with both extras, and a level that is none
\* of the three with its low list.
C14_Witness ==
    /\ RecommendationsReturned
    /\ \/ /\ risk_level = "high"
          /\ Len(recommendations) = 7
          /\ recommendations[6] = WaterExtra
          /\ recommendations[7] = SymptomExtra
       \/ /\ risk_level = "critical"
          /\ Len(recommendations) = 6

-----------------------------------------------------------------------------
(* Properties of main.py's DataProcessor (SpecProcessor) *)

\* the values a health report contributes: symptom counts and severities
ReportNumbers ==
    {Len(r.symptoms) : r \in ReportInputs} \cup {r.severity : r \in ReportInputs}

\* the k-th of the four values of a reading, and of the two of a report
SensorField(s, k) ==
    CASE k = 1 -> s.ph [] k = 2 -> s.turbidity [] k = 3 -> s.temperature [] k = 4 -> s.tds

ReportField(r, k) == IF k = 1 THEN Len(r.symptoms) ELSE r.severity

\* C24: process_prediction_request returns 8 values: the 4 values of each
\* sensor reading in request order, then the 2 values of each health report in
\* request order, then zeros, cut to the first 8; with two or more readings no
\* value of a health report is in the vector, and an empty request gives eight
\* zeros.
C24_ProcessedVector ==
    phase = "processed" =>
        LET ss == IF request.sensor_data.given THEN request.sensor_data.value ELSE <<>>
            rs == IF request.health_reports.given THEN request.health_reports.value ELSE <<>>
            ns == 4 * Len(ss)
            nr == 2 * Len(rs)
        IN  /\ Len(processed) = 8
            /\ \A i \in 1..8 :
                  processed[i] =
                     IF i <= ns THEN SensorField(ss[((i - 1) \div 4) + 1], ((i - 1) % 4) + 1)
                     ELSE IF i <= ns + nr
                     THEN ReportField(rs[((i - ns - 1) \div 2) + 1], ((i - ns - 1) % 2) + 1)
                     ELSE 0
            /\ Len(ss) >= 2 => \A i \in 1..8 : processed[i] \notin ReportNumbers
            /\ (ss = <<>> /\ rs = <<>>) => processed = <<0, 0, 0, 0, 0, 0, 0, 0>>

\* C24 witness: two readings and a health report: the vector holds the eight
\* values of the readings, and the report is cut.
C24_Witness ==
    /\ phase = "processed"
    /\ Len(request.sensor_data.value) = 2
    /\ Len(request.health_reports.value) >= 1
    /\ Len(processed) = 8
    /\ processed[8] = request.sensor_data.value[2].tds

-----------------------------------------------------------------------------
(* Properties of the synthetic data (SpecLabels, SpecSynthetic) *)

\* the two rows have been labelled
Labelled == labels # <<>>

\* the features the claim names as entering the risk score with a positive weight
PositiveFeatures ==
    { "symptom_density", "temperature_anomaly", "population_density",
      "recent_outbreaks", "seasonal_factor" }

\* C12: raising the value of symptom density, temperature anomaly, population
\* density, recent outbreaks or seasonal factor, the other features of the row
\* unchanged, never lowers the label.
C12_LabelMonotonicInFeature ==
    (Labelled /\ feature \in PositiveFeatures /\ RLess(row[feature], other[feature]))
        => labels[1] <= labels[2]

\* C12, amended: raising symptom density, population density, recent
\* outbreaks or seasonal factor, or raising the absolute value of the
\* temperature anomaly, the other features of the row unchanged, never lowers
\* the label.
C12_LabelMonotonicInAbsoluteAnomaly ==
    ( /\ Labelled
      /\ \/ /\ feature \in PositiveFeatures \ {"temperature_anomaly"}
            /\ RLess(row[feature], other[feature])
         \/ /\ feature = "temperature_anomaly"
            /\ Abs(row[feature].n) * other[feature].d < Abs(other[feature].n) * row[feature].d )
        => labels[1] <= labels[2]

\* C12 witness: the label rose with a temperature anomaly that went from 0 to
\* -9.
C12_Witness ==
    /\ Labelled
    /\ labels[1] < labels[2]
    /\ feature = "temperature_anomaly"
    /\ row[feature] = Num(0)
    /\ other[feature] = Num(-9)

\* C18: two calls of the same synthetic data generator return the same
\* features and the same labels, whatever drew from numpy's generator between
\* them.
C18_GeneratorIsDeterministic ==
    \A i, j \in 1..Len(calls) :
        (calls[i].by = calls[j].by /\ calls[i].by # "_estimate_population_density")
            => (calls[i].X = calls[j].X /\ calls[i].y = calls[j].y)

\* C18 witness: _generate_synthetic_data was called twice, a population
\* density draw and a call of another predictor's generator in between.
C18_Witness ==
    /\ Len(calls) = 4
    /\ calls[1].by = "_generate_synthetic_data"
    /\ calls[2].by = "_estimate_population_density"
    /\ calls[3].by = "HealthRiskAssessor"
    /\ calls[4].by = "_generate_synthetic_data"
    /\ calls[1].y = calls[4].y

-----------------------------------------------------------------------------
(* Properties of the service (SpecService) *)

\* C21: a training request that a train endpoint accepts is answered with
\* status training, its background run calls train() of the named predictor
\* with the data source and the parameters, and a run whose data preparation,
\* fit and persisting do not fail is recorded as completed and updates
\* last_trained.
C21_TrainingRunsInBackground ==
    (resp.endpoint = "train" /\ resp.reached)
        => /\ resp.status = 200
           /\ resp.body = "training"
           /\ resp.queued
           /\ resp.entered
           /\ resp.outcome = "ok" => (resp.run = "completed" /\ resp.stamped)

\* C20: one call of load_or_train() invokes train() at most once.
C20_TrainAtMostOncePerLoadOrTrain ==
    resp.endpoint \in {"startup", "reload"} => resp.trains <= 1

\* C8: a prediction request that reaches a predictor which is not in the
\* trained state is answered 503, and not with the 500 of an inference failure.
C8_NotTrainedAnswers503 ==
    (resp.endpoint = "predict" /\ resp.reached /\ ~resp.trained)
        => (resp.status = HTTP_503 /\ resp.status # HTTP_500)

=============================================================================
